---- MODULE Spec2Model ----
(***************************************************************************)
(* A model of noxfile.py: the nox sessions that build the seaborn Dash     *)
(* docset and contribute it to Kapeli/Dash-User-Contributions.             *)
(*                                                                         *)
(* One nox process runs a queue of sessions, one after the other.  Each    *)
(* session is a short program over external commands; the model follows    *)
(* it statement by statement (pc), with every external command's outcome   *)
(* (exit status, captured output) drawn from a small set.                  *)
(*                                                                         *)
(* Text that the code parses character by character (tag names, command    *)
(* output, file names) is a sequence of one-character strings; text that   *)
(* is only interpolated is a TLA+ string, concatenated with \o.            *)
(***************************************************************************)
EXTENDS Integers, Sequences, FiniteSets, TLC

(***************************************************************************)
(* Module constants, noxfile.py lines 16-28.                               *)
(***************************************************************************)
stop_on_first_error_off == FALSE
stop_on_first_error == TRUE
LIBRARY_REPOSITORY == "seaborn.github.io"
LIBRARY_NAME == "seaborn"
UPSTREAM_REPOSITORY_OWNER == "Kapeli"
DOCSET_REPOSITORY == "Dash-User-Contributions"
GITHUB_USER == "paw-lu"
GITHUB_REPO == "seaborn-dash-docset"

(***************************************************************************)
(* Bounds of the model.                                                    *)
(***************************************************************************)
\* most packages a dependency report lists
MaxPackages == 2
\* most tag names the tags API prints
MaxTags == 2

(***************************************************************************)
(* Python values: a str carries its text, None carries nothing.            *)
(***************************************************************************)
None == [type |-> "NoneType"]
Str(text) == [type |-> "str", val |-> text]
isinstance_str(value) == value.type = "str"

(***************************************************************************)
(* The characters of the names the model draws its inputs from.            *)
(***************************************************************************)
TagPool == {"v0.9.1", "v0.12.2", "0.12.2", "v0.13.0rc0", "latest", "1v2", "v.1"}
BranchPool == {"master", "main"}
FileNamePool == {"versions", "Seaborn.tgz", "seaborn.tgz", "seaborn.tgz.bak",
                 "docset.json", "README.md", "icon.png", "icon@2x.png",
                 "seaborn", "docset", "README"}

Chars(name) ==
    CASE name = "v0.9.1" -> <<"v", "0", ".", "9", ".", "1">>
      [] name = "v0.12.2" -> <<"v", "0", ".", "1", "2", ".", "2">>
      [] name = "0.12.2" -> <<"0", ".", "1", "2", ".", "2">>
      [] name = "v0.13.0rc0" -> <<"v", "0", ".", "1", "3", ".", "0", "r", "c", "0">>
      [] name = "latest" -> <<"l", "a", "t", "e", "s", "t">>
      [] name = "1v2" -> <<"1", "v", "2">>
      [] name = "v.1" -> <<"v", ".", "1">>
      [] name = "master" -> <<"m", "a", "s", "t", "e", "r">>
      [] name = "main" -> <<"m", "a", "i", "n">>
      [] name = "versions" -> <<"v", "e", "r", "s", "i", "o", "n", "s">>
      [] name = "Seaborn.tgz" -> <<"S", "e", "a", "b", "o", "r", "n", ".", "t", "g", "z">>
      [] name = "seaborn.tgz" -> <<"s", "e", "a", "b", "o", "r", "n", ".", "t", "g", "z">>
      [] name = "seaborn.tgz.bak" ->
            <<"s", "e", "a", "b", "o", "r", "n", ".", "t", "g", "z", ".", "b", "a", "k">>
      [] name = "docset.json" -> <<"d", "o", "c", "s", "e", "t", ".", "j", "s", "o", "n">>
      [] name = "README.md" -> <<"R", "E", "A", "D", "M", "E", ".", "m", "d">>
      [] name = "icon.png" -> <<"i", "c", "o", "n", ".", "p", "n", "g">>
      [] name = "icon@2x.png" -> <<"i", "c", "o", "n", "@", "2", "x", ".", "p", "n", "g">>
      [] name = "seaborn" -> <<"s", "e", "a", "b", "o", "r", "n">>
      [] name = "Seaborn" -> <<"S", "e", "a", "b", "o", "r", "n">>
      [] name = "NumPy" -> <<"N", "u", "m", "P", "y">>
      [] name = "docset" -> <<"d", "o", "c", "s", "e", "t">>
      [] name = "README" -> <<"R", "E", "A", "D", "M", "E">>

\* the name whose characters are cs
NameOf(cs, pool) == CHOOSE name \in pool : Chars(name) = cs

Digits == {"0", "1", "2", "3", "4", "5", "6", "7", "8", "9"}
Whitespace == {" ", "\n"}

(***************************************************************************)
(* The str methods the sessions use.                                       *)
(***************************************************************************)
\* s.replace(c, "")
Remove(s, c) == SelectSeq(s, LAMBDA ch : ch # c)

\* s.isnumeric()
isnumeric(s) == Len(s) > 0 /\ \A i \in 1..Len(s) : s[i] \in Digits

\* s.rstrip()
RECURSIVE rstrip(_)
rstrip(s) ==
    IF Len(s) > 0 /\ s[Len(s)] \in Whitespace
    THEN rstrip(SubSeq(s, 1, Len(s) - 1))
    ELSE s

\* s.split(): the runs of characters between whitespace
RECURSIVE SplitFrom(_, _, _)
SplitFrom(s, i, word) ==
    IF i > Len(s)
    THEN IF word = <<>> THEN <<>> ELSE <<word>>
    ELSE IF s[i] \in Whitespace
         THEN IF word = <<>>
              THEN SplitFrom(s, i + 1, <<>>)
              ELSE <<word>> \o SplitFrom(s, i + 1, <<>>)
         ELSE SplitFrom(s, i + 1, Append(word, s[i]))
split(s) == SplitFrom(s, 1, <<>>)

\* s.split(sep): the pieces between separators, empty pieces kept
RECURSIVE SplitOnFrom(_, _, _, _)
SplitOnFrom(s, sep, i, piece) ==
    IF i > Len(s)
    THEN <<piece>>
    ELSE IF s[i] = sep
         THEN <<piece>> \o SplitOnFrom(s, sep, i + 1, <<>>)
         ELSE SplitOnFrom(s, sep, i + 1, Append(piece, s[i]))
split_on(s, sep) == SplitOnFrom(s, sep, 1, <<>>)

\* int(s): defined on a non-empty run of digits, a ValueError otherwise
int_raises(s) == ~isnumeric(s)
DigitValue(ch) ==
    CASE ch = "0" -> 0 [] ch = "1" -> 1 [] ch = "2" -> 2 [] ch = "3" -> 3
      [] ch = "4" -> 4 [] ch = "5" -> 5 [] ch = "6" -> 6 [] ch = "7" -> 7
      [] ch = "8" -> 8 [] ch = "9" -> 9
RECURSIVE int(_)
int(s) ==
    IF Len(s) = 0 THEN 0
    ELSE 10 * int(SubSeq(s, 1, Len(s) - 1)) + DigitValue(s[Len(s)])

\* a < b for two tuples of integers, as Python compares tuples
RECURSIVE tuple_less(_, _)
tuple_less(a, b) ==
    IF Len(a) = 0 THEN Len(b) > 0
    ELSE IF Len(b) = 0 THEN FALSE
    ELSE IF a[1] # b[1] THEN a[1] < b[1]
    ELSE tuple_less(Tail(a), Tail(b))

\* str.lower() of one character
lower_char(ch) ==
    CASE ch = "S" -> "s" [] ch = "N" -> "n" [] ch = "P" -> "p" [] ch = "R" -> "r"
      [] ch = "E" -> "e" [] ch = "A" -> "a" [] ch = "D" -> "d" [] ch = "M" -> "m"
      [] OTHER -> ch
lower(s) == [i \in 1..Len(s) |-> lower_char(s[i])]

\* Path.glob's match of one name against a pattern with "*"
RECURSIVE fnmatch(_, _)
fnmatch(name, pattern) ==
    IF pattern = <<>> THEN name = <<>>
    ELSE IF pattern[1] = "*"
         THEN fnmatch(name, Tail(pattern))
              \/ (name # <<>> /\ fnmatch(Tail(name), pattern))
         ELSE name # <<>> /\ name[1] = pattern[1]
              /\ fnmatch(Tail(name), Tail(pattern))

\* PurePath.with_suffix: the last suffix of the name replaced, or one added
with_suffix(name, suffix) ==
    LET dots == {i \in 2..(Len(name) - 1) : name[i] = "."}
        stem == IF dots = {} THEN name
                ELSE SubSeq(name, 1, (CHOOSE i \in dots : \A j \in dots : j <= i) - 1)
    IN  stem \o suffix

(***************************************************************************)
(* clone, lines 49-62: the latest release among the tag names.             *)
(***************************************************************************)
\* lines 51-55
numeric_tag_names(tag_names) ==
    SelectSeq(tag_names, LAMBDA tag_name : isnumeric(Remove(Remove(tag_name, "v"), ".")))

\* lines 58-61: the key of max()
version_sections(tag_name) == split_on(Remove(tag_name, "v"), ".")
version_key_raises(tag_name) ==
    \E i \in 1..Len(version_sections(tag_name)) : int_raises(version_sections(tag_name)[i])
version_key(tag_name) ==
    [i \in 1..Len(version_sections(tag_name)) |-> int(version_sections(tag_name)[i])]

\* max(names, key=...): the first of the greatest
RECURSIVE max_from(_, _, _)
max_from(names, i, best) ==
    IF i > Len(names) THEN best
    ELSE IF tuple_less(version_key(best), version_key(names[i]))
         THEN max_from(names, i + 1, names[i])
         ELSE max_from(names, i + 1, best)

\* lines 50-62: the tag to check out, or the exception raised on the way
latest_tag_name(tags_output) ==
    LET numeric == numeric_tag_names(split(tags_output))
    IN  IF numeric = <<>>
        THEN [raised |-> "ValueError: max() arg is an empty sequence", value |-> <<>>]
        ELSE IF \E i \in 1..Len(numeric) : version_key_raises(numeric[i])
        THEN [raised |-> "ValueError: invalid literal for int() with base 10: ''",
              value |-> <<>>]
        ELSE [raised |-> "none", value |-> max_from(numeric, 2, numeric[1])]

(***************************************************************************)
(* _get_library_version, lines 138-148: the version of the one package of  *)
(* the dependency report.                                                  *)
(***************************************************************************)
library_version_of_first(install_report) ==
    IF Len(install_report) = 0
    THEN [raised |-> "ValueError: not enough values to unpack", value |-> "none"]
    ELSE [raised |-> "none", value |-> install_report[1].metadata.version]
library_version_of(install_report) ==
    IF 1 < Len(install_report)
    THEN [raised |-> "ValueError: Multiple dependencies detected in requirements file. Expected one.",
          value |-> "none"]
    ELSE IF Len(install_report) = 0
    THEN [raised |-> "ValueError: not enough values to unpack", value |-> "none"]
    ELSE [raised |-> "none", value |-> install_report[1].metadata.version]

(***************************************************************************)
(* _get_trunk_branch_name, lines 166-170.                                  *)
(***************************************************************************)
trunk_branch_name_of_untrimmed(default_branch) ==
    IF isinstance_str(default_branch)
    THEN [raised |-> "none", value |-> default_branch.val]
    ELSE [raised |-> "ValueError: No default branch detected.", value |-> <<>>]
trunk_branch_name_of(default_branch) ==
    IF isinstance_str(default_branch)
    THEN [raised |-> "none", value |-> rstrip(default_branch.val)]
    ELSE [raised |-> "ValueError: No default branch detected.", value |-> <<>>]

(***************************************************************************)
(* _make_branch_name, line 177.                                            *)
(***************************************************************************)
branch_name_of(version) == LIBRARY_NAME \o "-" \o version

(***************************************************************************)
(* The state.                                                              *)
(***************************************************************************)
VARIABLES
    \* the nox process
    queue,                  \* the sessions still to run, in order
    running,                \* the session being run, or "none"
    session,                \* the Session object of the running session: nox
                            \* makes a new one for every session it runs
    results,                \* the sessions run so far, with their status
    install_only,           \* nox --install-only: session.run runs nothing
    github_env,             \* GITHUB_ACTION = contribute-docs and GITHUB_TOKEN set
    \* the running session
    pc,                     \* the statement it is at
    error,                  \* the exception that ended it, or "none"
    local,                  \* its local variables
    commands,               \* the external commands it has run, with their status
    \* the process
    cwd,                    \* os.getcwd()
    working_dir_context,    \* the open "with session.chdir(...)" block
    library_version_cache,  \* lru_cache of _get_library_version
    branch_name_cache,      \* lru_cache of _make_branch_name
    trunk_branch_name_cache,\* lru_cache of _get_trunk_branch_name
    dash_docset_path_cache, \* lru_cache of _get_dash_docset_path
    installs,               \* how often pip was run for the dependency report
    \* the file system and the repositories
    library_repo,           \* seaborn.github.io: absent, or the tag checked out
    icon_files,             \* icon.png, icon@2x.png beside the noxfile
    docset,                 \* the built seaborn.docset
    docsets,                \* Dash-User-Contributions/docsets: its entries
    dash_dir,               \* the library's directory in docsets: its entries
    docset_json,            \* docset.json in that directory
    readme,                 \* README.md in that directory
    git                     \* the fork: committed, pushed, pull request, origin

procVars == <<queue, running, session, results, install_only, github_env>>
ctlVars == <<pc, error, cwd, working_dir_context>>
cacheVars == <<library_version_cache, branch_name_cache, trunk_branch_name_cache,
               dash_docset_path_cache>>
fsVars == <<library_repo, icon_files, docset, docsets, dash_dir, docset_json, readme>>
vars == <<procVars, ctlVars, local, commands, cacheVars, installs, fsVars, git>>

(***************************************************************************)
(* The sessions, in the order the noxfile defines them, and their tags.    *)
(***************************************************************************)
Sessions == <<"clone", "icon", "dash", "fork", "create-directory", "remove-old",
              "copy-contents", "fill-forms", "commit", "push", "pull-request",
              "check-types", "version">>

tags(name) ==
    CASE name \in {"clone", "icon", "dash"} -> {"build"}
      [] name \in {"fork", "create-directory", "remove-old", "copy-contents",
                   "fill-forms", "commit", "push", "pull-request"} -> {"contribute"}
      [] name = "check-types" -> {"lint"}
      [] OTHER -> {}

\* nox --tags tag: the sessions with the tag, in definition order
tagged(tag) == SelectSeq(Sessions, LAMBDA name : tag \in tags(name))

\* what one nox process is asked to run: every session, a tag, or one session
Invocations ==
    {Sessions} \cup {tagged(tag) : tag \in {"build", "contribute", "lint"}}
        \cup {<<Sessions[i]>> : i \in 1..Len(Sessions)}

(***************************************************************************)
(* Values.                                                                 *)
(***************************************************************************)
NoLocals ==
    [tags_api_output |-> None, latest_tag_name |-> <<>>,
     dependency_report |-> None, library_version |-> "none",
     branch_name |-> "none", default_branch |-> None, trunk_branch_name |-> <<>>,
     origin_url |-> None, token_url |-> None]

NoContext == [active |-> FALSE]
Context(prev) == [active |-> TRUE, _prev_working_dir |-> prev]

NoFile == [exists |-> FALSE]
File(content) == [exists |-> TRUE, content |-> content]

Absent == [exists |-> FALSE]
Directory(entries) == [exists |-> TRUE, entries |-> entries]

NotCached == [cached |-> FALSE]
Cached(value) == [cached |-> TRUE, value |-> value]

EmptyDir == [name \in {} |-> "file"]
Put(dir, name, kind) ==
    [n \in DOMAIN dir \cup {name} |-> IF n = name THEN kind ELSE dir[n]]
Without(dir, names) == [n \in DOMAIN dir \ names |-> dir[n]]

SeqsUpTo(S, n) == UNION {[1..k -> S] : k \in 0..n}

(***************************************************************************)
(* What the world can answer.                                              *)
(***************************************************************************)
Versions == {"0.12.2", "0.13.0"}

\* pip's --report: the packages it would install
Reports ==
    {[install |-> packages] :
        packages \in SeqsUpTo({[metadata |-> [version |-> v]] : v \in Versions},
                              MaxPackages)}

\* gh api .../tags --jq=.[].name: one tag name a line
RECURSIVE lines_of(_)
lines_of(names) ==
    IF names = <<>> THEN <<>>
    ELSE Chars(Head(names)) \o <<"\n">> \o lines_of(Tail(names))
TagsOutputs == {lines_of(names) : names \in SeqsUpTo(TagPool, MaxTags)}

\* gh api .../repos/o/r --jq=.default_branch: the name and a line end
DefaultBranchOutputs == {Chars(name) \o <<"\n">> : name \in BranchPool}

\* git remote get-url origin
OriginUrls ==
    {[scheme |-> "https", netloc |-> "github.com",
      path |-> "/" \o GITHUB_USER \o "/" \o DOCSET_REPOSITORY \o ".git"]}
GITHUB_TOKEN == "ghs_token"

\* the docsets directory of the repository gh forks and clones: other
\* libraries' directories, and the library's under either spelling or none
PriorDashDirs ==
    {d \in [{"versions", "Seaborn.tgz", "seaborn.tgz.bak", "docset.json"}
                -> {"absent", "file", "dir"}] :
        /\ d["Seaborn.tgz"] # "dir"
        /\ d["docset.json"] # "dir"}
Present(d) == [n \in {m \in DOMAIN d : d[m] # "absent"} |-> d[n]]

PriorRepositories ==
    {[docsets |-> Directory([n \in {"NumPy"} |-> "dir"]), dash_dir |-> EmptyDir]}
    \cup {[docsets |-> Directory([n \in {"NumPy", "seaborn"} |->
                                    IF n = "NumPy" THEN "dir" ELSE "file"]),
           dash_dir |-> EmptyDir]}
    \cup {[docsets |-> Directory([n \in {"NumPy", spelling} |-> "dir"]),
           dash_dir |-> Present(d)] :
            spelling \in {"Seaborn", "seaborn"}, d \in PriorDashDirs}

PriorConfig ==
    [name |-> "seaborn", version |-> "0.11.2", archive |-> "seaborn.tgz"]

(***************************************************************************)
(* The state a nox process starts in: a fresh checkout of this repository, *)
(* or one where the build sessions have run before; in the latter the      *)
(* fork may have been cloned before as well.                               *)
(***************************************************************************)
Workspaces ==
    {[library_repo |-> Absent, icon_files |-> {}, docset |-> Absent,
      docsets |-> Absent, dash_dir |-> EmptyDir]}
    \cup {[library_repo |-> [exists |-> TRUE, tag |-> Chars("v0.12.2")],
           icon_files |-> {"icon.png", "icon@2x.png"},
           docset |-> Directory({"icon.png", "icon@2x.png"}),
           docsets |-> Absent, dash_dir |-> EmptyDir]}
    \cup {[library_repo |-> [exists |-> TRUE, tag |-> Chars("v0.12.2")],
           icon_files |-> {"icon.png", "icon@2x.png"},
           docset |-> Directory({"icon.png", "icon@2x.png"}),
           docsets |-> r.docsets, dash_dir |-> r.dash_dir] : r \in PriorRepositories}

Init ==
    /\ queue \in Invocations
    /\ running = "none"
    /\ session = 0
    /\ results = <<>>
    /\ install_only \in BOOLEAN
    /\ github_env \in BOOLEAN
    /\ pc = "idle"
    /\ error = "none"
    /\ local = NoLocals
    /\ commands = <<>>
    /\ cwd = "."
    /\ working_dir_context = NoContext
    /\ library_version_cache = [s \in {} |-> "none"]
    /\ branch_name_cache = [s \in {} |-> "none"]
    /\ trunk_branch_name_cache = [s \in {} |-> <<>>]
    /\ dash_docset_path_cache = NotCached
    /\ installs = 0
    /\ \E w \in Workspaces :
        /\ library_repo = w.library_repo
        /\ icon_files = w.icon_files
        /\ docset = w.docset
        /\ docsets = w.docsets
        /\ dash_dir = w.dash_dir
        /\ docset_json = IF "docset.json" \in DOMAIN w.dash_dir
                         THEN File(PriorConfig) ELSE NoFile
    /\ readme = NoFile
    /\ git = [committed |-> FALSE, pushed |-> FALSE, pull_request |-> FALSE,
              origin |-> IF docsets.exists THEN Str(CHOOSE url \in OriginUrls : TRUE)
                         ELSE None]

(***************************************************************************)
(* How a statement ends: the next statement, an exception, the return.     *)
(***************************************************************************)
\* "with session.chdir(...)" left, normally or by an exception: the context
\* manager changes back to the directory it was entered from
exit_cwd_leak(context, dir) == dir
exit_cwd(context, dir) == IF context.active THEN context._prev_working_dir ELSE dir

Goto(next) ==
    /\ pc' = next
    /\ UNCHANGED <<error, cwd, working_dir_context>>

Raise(exception) ==
    /\ pc' = "raised"
    /\ error' = exception
    /\ cwd' = exit_cwd(working_dir_context, cwd)
    /\ working_dir_context' = NoContext

Return ==
    /\ pc' = "returned"
    /\ error' = error
    /\ cwd' = exit_cwd(working_dir_context, cwd)
    /\ working_dir_context' = NoContext

\* with session.chdir(dir): the directory is entered if it is there
Chdir(dir, there, next) ==
    IF there
    THEN /\ pc' = next
         /\ error' = error
         /\ working_dir_context' = Context(cwd)
         /\ cwd' = IF cwd = "." THEN dir ELSE cwd \o "/" \o dir
    ELSE Raise("FileNotFoundError")

\* session.run(...): under --install-only nothing is run and None comes back;
\* otherwise the command runs, and a non-zero status raises CommandFailed
run_outcomes == IF install_only THEN {"skipped"} ELSE {"ok", "failed"}
logged(command, outcome) ==
    IF outcome = "skipped" THEN commands
    ELSE Append(commands, [command |-> command,
                           returncode |-> IF outcome = "ok" THEN 0 ELSE 1])

\* a session.run whose command changes nothing the model holds
PlainRun(command, Continue) ==
    \E outcome \in run_outcomes :
        /\ commands' = logged(command, outcome)
        /\ IF outcome = "failed" THEN Raise("CommandFailed") ELSE Continue

At(name, label) == running = name /\ pc = label

(***************************************************************************)
(* The nox process: it runs the queue in order, each session with a new    *)
(* Session object, and with stop_on_first_error ends at the first failure. *)
(***************************************************************************)
StartSession ==
    /\ running = "none"
    /\ queue # <<>>
    /\ running' = Head(queue)
    /\ queue' = Tail(queue)
    /\ session' = session + 1
    /\ pc' = "start"
    /\ error' = "none"
    /\ local' = NoLocals
    /\ commands' = <<>>
    /\ UNCHANGED <<results, install_only, github_env, cwd, working_dir_context,
                   cacheVars, installs, fsVars, git>>

FinishSession ==
    /\ running # "none"
    /\ pc \in {"returned", "raised"}
    /\ results' = Append(results, [name |-> running,
                                   status |-> IF pc = "returned" THEN "success"
                                              ELSE "failed"])
    /\ queue' = IF pc = "raised" /\ stop_on_first_error THEN <<>> ELSE queue
    /\ running' = "none"
    /\ pc' = "idle"
    /\ local' = NoLocals
    /\ UNCHANGED <<session, install_only, github_env, error, commands, cwd,
                   working_dir_context, cacheVars, installs, fsVars, git>>

(***************************************************************************)
(* The cached helpers.  functools.lru_cache keys an entry by the call's    *)
(* arguments, here the Session object, and keeps no entry for a call that  *)
(* raised.                                                                 *)
(***************************************************************************)
\* _get_library_version(session), lines 123-148; with for_branch_name, called
\* from _make_branch_name(session), lines 173-179, on a miss of its own cache
get_library_version(next, for_branch_name) ==
    IF session \in DOMAIN library_version_cache
    THEN LET version == library_version_cache[session]
         IN  /\ local' = [local EXCEPT
                    !.library_version = version,
                    !.branch_name = IF for_branch_name
                                    THEN branch_name_of(version) ELSE @]
             /\ branch_name_cache' =
                    IF for_branch_name
                    THEN branch_name_cache @@ (session :> branch_name_of(version))
                    ELSE branch_name_cache
             /\ Goto(next)
             /\ UNCHANGED <<library_version_cache, installs, commands>>
    ELSE \E outcome \in {"ok", "failed"} :
            /\ installs' = installs + 1
            /\ commands' = logged("pip install --dry-run --report", outcome)
            /\ IF outcome = "failed"
               THEN /\ Raise("CommandFailed")
                    /\ UNCHANGED <<local, library_version_cache, branch_name_cache>>
               ELSE \E dependency_report \in Reports :
                    LET got == library_version_of(dependency_report.install)
                    IN  IF got.raised # "none"
                        THEN /\ Raise(got.raised)
                             /\ local' = [local EXCEPT
                                    !.dependency_report = dependency_report]
                             /\ UNCHANGED <<library_version_cache, branch_name_cache>>
                        ELSE /\ Goto(next)
                             /\ local' = [local EXCEPT
                                    !.dependency_report = dependency_report,
                                    !.library_version = got.value,
                                    !.branch_name =
                                        IF for_branch_name
                                        THEN branch_name_of(got.value) ELSE @]
                             /\ library_version_cache' =
                                    library_version_cache @@ (session :> got.value)
                             /\ branch_name_cache' =
                                    IF for_branch_name
                                    THEN branch_name_cache
                                            @@ (session :> branch_name_of(got.value))
                                    ELSE branch_name_cache

\* _make_branch_name(session), lines 173-179
make_branch_name(next) ==
    IF session \in DOMAIN branch_name_cache
    THEN /\ local' = [local EXCEPT !.branch_name = branch_name_cache[session]]
         /\ Goto(next)
         /\ UNCHANGED <<library_version_cache, branch_name_cache, installs, commands>>
    ELSE get_library_version(next, TRUE)

\* _get_trunk_branch_name(session, owner, name), lines 151-170
get_trunk_branch_name(next) ==
    IF session \in DOMAIN trunk_branch_name_cache
    THEN /\ local' = [local EXCEPT
                !.trunk_branch_name = trunk_branch_name_cache[session]]
         /\ Goto(next)
         /\ UNCHANGED <<trunk_branch_name_cache, commands>>
    ELSE \E outcome \in run_outcomes :
            /\ commands' = logged("gh api /repos/Kapeli/Dash-User-Contributions", outcome)
            /\ IF outcome = "failed"
               THEN /\ Raise("CommandFailed")
                    /\ UNCHANGED <<local, trunk_branch_name_cache>>
               ELSE \E default_branch \in
                        IF outcome = "skipped" THEN {None}
                        ELSE {Str(text) : text \in DefaultBranchOutputs} :
                    LET got == trunk_branch_name_of(default_branch)
                    IN  IF got.raised # "none"
                        THEN /\ Raise(got.raised)
                             /\ local' = [local EXCEPT !.default_branch = default_branch]
                             /\ UNCHANGED trunk_branch_name_cache
                        ELSE /\ Goto(next)
                             /\ local' = [local EXCEPT
                                    !.default_branch = default_branch,
                                    !.trunk_branch_name = got.value]
                             /\ trunk_branch_name_cache' =
                                    trunk_branch_name_cache @@ (session :> got.value)

\* _get_dash_docset_path(), lines 244-259: the directory of docsets whose
\* name is the library's in any case, or docsets/seaborn
dash_docset_path ==
    IF dash_docset_path_cache.cached
    THEN [raised |-> "none", value |-> dash_docset_path_cache.value]
    ELSE IF ~docsets.exists
    THEN [raised |-> "FileNotFoundError", value |-> "none"]
    ELSE LET found == {name \in DOMAIN docsets.entries :
                        /\ docsets.entries[name] = "dir"
                        /\ lower(Chars(LIBRARY_NAME)) = lower(Chars(name))}
         IN  [raised |-> "none",
              value |-> IF found # {} THEN CHOOSE name \in found : TRUE
                        ELSE LIBRARY_NAME]
path_cached(got) ==
    IF got.raised = "none" THEN Cached(got.value) ELSE dash_docset_path_cache

\* whether the path is a directory
is_dir(name) ==
    docsets.exists /\ name \in DOMAIN docsets.entries /\ docsets.entries[name] = "dir"

\* _get_docset_path(), lines 98-102: the first *.docset beside the noxfile
docset_path ==
    IF docset.exists /\ fnmatch(Chars("seaborn") \o <<".", "d", "o", "c", "s", "e", "t">>,
                                <<"*", ".", "d", "o", "c", "s", "e", "t">>)
    THEN [raised |-> "none", value |-> "seaborn.docset"]
    ELSE [raised |-> "StopIteration", value |-> "none"]

(***************************************************************************)
(* What only the helpers' callers leave alone.                             *)
(***************************************************************************)
VersionFrame ==
    UNCHANGED <<procVars, trunk_branch_name_cache, dash_docset_path_cache, fsVars, git>>
TrunkFrame ==
    UNCHANGED <<procVars, library_version_cache, branch_name_cache,
                dash_docset_path_cache, installs, fsVars, git>>
RunFrame == UNCHANGED <<procVars, local, cacheVars, installs, fsVars, git>>
ChdirFrame == UNCHANGED <<procVars, local, commands, cacheVars, installs, fsVars, git>>

(***************************************************************************)
(* clone, lines 31-73.                                                     *)
(***************************************************************************)
\* line 36; git clones into a directory that is not there yet
clone_gh_repo_clone ==
    /\ At("clone", "start")
    /\ \E outcome \in IF install_only THEN {"skipped"}
                      ELSE IF library_repo.exists THEN {"failed"}
                      ELSE {"ok", "failed"} :
        /\ commands' = logged("gh repo clone seaborn/seaborn.github.io", outcome)
        /\ IF outcome = "failed"
           THEN Raise("CommandFailed") /\ UNCHANGED library_repo
           ELSE /\ Goto("chdir")
                /\ library_repo' = IF outcome = "ok"
                                   THEN [exists |-> TRUE, tag |-> <<>>]
                                   ELSE library_repo
    /\ UNCHANGED <<procVars, local, cacheVars, installs, icon_files, docset, docsets,
                   dash_dir, docset_json, readme, git>>

\* line 38
clone_chdir ==
    /\ At("clone", "chdir")
    /\ Chdir(LIBRARY_REPOSITORY, library_repo.exists, "tags")
    /\ ChdirFrame

\* lines 39-47
clone_gh_api_tags ==
    /\ At("clone", "tags")
    /\ \E outcome \in run_outcomes :
        /\ commands' = logged("gh api /repos/seaborn/seaborn.github.io/tags", outcome)
        /\ IF outcome = "failed"
           THEN Raise("CommandFailed") /\ UNCHANGED local
           ELSE \E tags_api_output \in
                    IF outcome = "skipped" THEN {None}
                    ELSE {Str(text) : text \in TagsOutputs} :
                /\ local' = [local EXCEPT !.tags_api_output = tags_api_output]
                /\ Goto("latest")
    /\ UNCHANGED <<procVars, cacheVars, installs, fsVars, git>>

\* lines 49-62 and 72-73
clone_latest_tag_name ==
    /\ At("clone", "latest")
    /\ IF isinstance_str(local.tags_api_output)
       THEN LET got == latest_tag_name(local.tags_api_output.val)
            IN  IF got.raised # "none"
                THEN Raise(got.raised) /\ UNCHANGED local
                ELSE /\ local' = [local EXCEPT !.latest_tag_name = got.value]
                     /\ Goto("checkout")
       ELSE /\ Raise("ValueError: Did not find a tag name for the latest release")
            /\ UNCHANGED local
    /\ UNCHANGED <<procVars, commands, cacheVars, installs, fsVars, git>>

\* lines 63-70
clone_git_checkout ==
    /\ At("clone", "checkout")
    /\ \E outcome \in run_outcomes :
        /\ commands' = logged("git checkout tags/", outcome)
        /\ IF outcome = "failed"
           THEN Raise("CommandFailed") /\ UNCHANGED library_repo
           ELSE /\ Return
                /\ library_repo' = IF outcome = "ok"
                                   THEN [library_repo EXCEPT !.tag = local.latest_tag_name]
                                   ELSE library_repo
    /\ UNCHANGED <<procVars, local, cacheVars, installs, icon_files, docset, docsets,
                   dash_dir, docset_json, readme, git>>

(***************************************************************************)
(* icon, lines 76-95: one convert for each size.                           *)
(***************************************************************************)
icon_convert ==
    \E size \in {[at |-> "start", file_name |-> "icon.png", then |-> "32x32"],
                 [at |-> "32x32", file_name |-> "icon@2x.png", then |-> "end"]} :
        /\ At("icon", size.at)
        /\ \E outcome \in IF install_only THEN {"skipped"}
                          ELSE IF library_repo.exists THEN {"ok", "failed"}
                          ELSE {"failed"} :
            /\ commands' = logged("convert " \o size.file_name, outcome)
            /\ IF outcome = "failed"
               THEN Raise("CommandFailed") /\ UNCHANGED icon_files
               ELSE /\ IF size.then = "end" THEN Return ELSE Goto(size.then)
                    /\ icon_files' = IF outcome = "ok"
                                     THEN icon_files \cup {size.file_name}
                                     ELSE icon_files
        /\ UNCHANGED <<procVars, local, cacheVars, installs, library_repo, docset,
                       docsets, dash_dir, docset_json, readme, git>>

(***************************************************************************)
(* dash, lines 105-120.                                                    *)
(***************************************************************************)
\* line 108: session.install runs pip also under --install-only
dash_install ==
    /\ At("dash", "start")
    /\ \E outcome \in {"ok", "failed"} :
        /\ commands' = logged("pip install doc2dash", outcome)
        /\ IF outcome = "failed" THEN Raise("CommandFailed") ELSE Goto("doc2dash")
    /\ RunFrame

\* lines 109-116
dash_doc2dash ==
    /\ At("dash", "doc2dash")
    /\ \E outcome \in IF install_only THEN {"skipped"}
                      ELSE IF library_repo.exists /\ "icon.png" \in icon_files
                      THEN {"ok", "failed"}
                      ELSE {"failed"} :
        /\ commands' = logged("doc2dash", outcome)
        /\ IF outcome = "failed"
           THEN Raise("CommandFailed") /\ UNCHANGED docset
           ELSE /\ Goto("copy")
                /\ docset' = IF outcome = "ok" THEN Directory({"icon.png"}) ELSE docset
    /\ UNCHANGED <<procVars, local, cacheVars, installs, library_repo, icon_files,
                   docsets, dash_dir, docset_json, readme, git>>

\* lines 119-120
dash_copy_icon ==
    /\ At("dash", "copy")
    /\ IF docset_path.raised # "none"
       THEN Raise(docset_path.raised) /\ UNCHANGED docset
       ELSE IF "icon@2x.png" \notin icon_files
       THEN Raise("FileNotFoundError") /\ UNCHANGED docset
       ELSE /\ docset' = Directory(docset.entries \cup {"icon@2x.png"})
            /\ Return
    /\ UNCHANGED <<procVars, local, commands, cacheVars, installs, library_repo,
                   icon_files, docsets, dash_dir, docset_json, readme, git>>

(***************************************************************************)
(* fork, lines 195-241.                                                    *)
(***************************************************************************)
\* _add_github_token, lines 182-192
add_github_token(repo_url, github_token) ==
    [repo_url EXCEPT !.netloc = github_token \o "@" \o @]

\* lines 198-206: the fork is cloned into a directory that is not there yet
fork_gh_repo_fork ==
    /\ At("fork", "start")
    /\ \E outcome \in IF install_only THEN {"skipped"}
                      ELSE IF docsets.exists THEN {"failed"}
                      ELSE {"ok", "failed"} :
        /\ commands' = logged("gh repo fork --clone Kapeli/Dash-User-Contributions", outcome)
        /\ IF outcome = "ok"
           THEN /\ Goto("branch_name")
                /\ \E r \in PriorRepositories :
                    /\ docsets' = r.docsets
                    /\ dash_dir' = r.dash_dir
                    /\ docset_json' = IF "docset.json" \in DOMAIN r.dash_dir
                                      THEN File(PriorConfig) ELSE NoFile
                /\ git' = [git EXCEPT !.origin = Str(CHOOSE url \in OriginUrls : TRUE)]
           ELSE /\ IF outcome = "failed" THEN Raise("CommandFailed")
                   ELSE Goto("branch_name")
                /\ UNCHANGED <<docsets, dash_dir, docset_json, git>>
    /\ UNCHANGED <<procVars, local, cacheVars, installs, library_repo, icon_files,
                   docset, readme>>

\* line 207
fork_make_branch_name ==
    /\ At("fork", "branch_name")
    /\ make_branch_name("chdir")
    /\ VersionFrame

\* line 209
fork_chdir ==
    /\ At("fork", "chdir")
    /\ Chdir(DOCSET_REPOSITORY, docsets.exists, "switch")
    /\ ChdirFrame

\* lines 210-216
fork_git_switch_ignoring_failure ==
    /\ At("fork", "switch")
    /\ \E outcome \in run_outcomes :
        /\ commands' = logged("git switch --create", outcome)
        /\ Goto("fetch")
    /\ RunFrame
fork_git_switch ==
    /\ At("fork", "switch")
    /\ PlainRun("git switch --create", Goto("fetch"))
    /\ RunFrame

\* line 217
fork_git_fetch ==
    /\ At("fork", "fetch")
    /\ PlainRun("git fetch upstream", Goto("trunk"))
    /\ RunFrame

\* lines 218-222
fork_get_trunk_branch_name ==
    /\ At("fork", "trunk")
    /\ get_trunk_branch_name("reset")
    /\ TrunkFrame

\* lines 223-230: the branch is reset to what upstream holds
fork_git_reset ==
    /\ At("fork", "reset")
    /\ \E outcome \in run_outcomes :
        /\ commands' = logged("git reset --hard upstream/", outcome)
        /\ IF outcome = "ok"
           THEN /\ IF github_env THEN Goto("origin_url") ELSE Return
                /\ \E r \in PriorRepositories :
                    /\ docsets' = r.docsets
                    /\ dash_dir' = r.dash_dir
                    /\ docset_json' = IF "docset.json" \in DOMAIN r.dash_dir
                                      THEN File(PriorConfig) ELSE NoFile
                /\ readme' = NoFile
           ELSE /\ IF outcome = "failed" THEN Raise("CommandFailed")
                   ELSE IF github_env THEN Goto("origin_url") ELSE Return
                /\ UNCHANGED <<docsets, dash_dir, docset_json, readme>>
    /\ UNCHANGED <<procVars, local, cacheVars, installs, library_repo, icon_files,
                   docset, git>>

\* lines 231-233
fork_git_remote_get_url ==
    /\ At("fork", "origin_url")
    /\ \E outcome \in run_outcomes :
        /\ commands' = logged("git remote get-url origin", outcome)
        /\ IF outcome = "failed"
           THEN Raise("CommandFailed") /\ UNCHANGED local
           ELSE /\ local' = [local EXCEPT
                        !.origin_url = IF outcome = "ok" THEN git.origin ELSE None]
                /\ Goto("token")
    /\ UNCHANGED <<procVars, cacheVars, installs, fsVars, git>>

\* lines 235-236 and 240-241
fork_add_github_token ==
    /\ At("fork", "token")
    /\ IF isinstance_str(local.origin_url)
       THEN /\ local' = [local EXCEPT
                    !.token_url = Str(add_github_token(local.origin_url.val, GITHUB_TOKEN))]
            /\ Goto("remote_remove")
       ELSE /\ Raise("ValueError: No url for remote 'origin' detected.")
            /\ UNCHANGED local
    /\ UNCHANGED <<procVars, commands, cacheVars, installs, fsVars, git>>

\* line 237
fork_git_remote_remove ==
    /\ At("fork", "remote_remove")
    /\ \E outcome \in run_outcomes :
        /\ commands' = logged("git remote remove origin", outcome)
        /\ IF outcome = "failed"
           THEN Raise("CommandFailed") /\ UNCHANGED git
           ELSE /\ Goto("remote_add")
                /\ git' = IF outcome = "ok" THEN [git EXCEPT !.origin = None] ELSE git
    /\ UNCHANGED <<procVars, local, cacheVars, installs, fsVars>>

\* line 238
fork_git_remote_add ==
    /\ At("fork", "remote_add")
    /\ \E outcome \in run_outcomes :
        /\ commands' = logged("git remote add origin", outcome)
        /\ IF outcome = "failed"
           THEN Raise("CommandFailed") /\ UNCHANGED git
           ELSE /\ Return
                /\ git' = IF outcome = "ok"
                          THEN [git EXCEPT !.origin = local.token_url] ELSE git
    /\ UNCHANGED <<procVars, local, cacheVars, installs, fsVars>>

(***************************************************************************)
(* create-directory, lines 262-266.                                        *)
(***************************************************************************)
create_directory ==
    /\ At("create-directory", "start")
    /\ LET got == dash_docset_path
       IN  /\ dash_docset_path_cache' = path_cached(got)
           /\ IF got.raised # "none"
              THEN Raise(got.raised) /\ UNCHANGED <<docsets, dash_dir>>
              ELSE IF is_dir(got.value)
              THEN Return /\ UNCHANGED <<docsets, dash_dir>>
              ELSE IF got.value \in DOMAIN docsets.entries
              THEN Raise("FileExistsError") /\ UNCHANGED <<docsets, dash_dir>>
              ELSE /\ docsets' = Directory(Put(docsets.entries, got.value, "dir"))
                   /\ dash_dir' = EmptyDir
                   /\ Return
    /\ UNCHANGED <<procVars, local, commands, library_version_cache, branch_name_cache,
                   trunk_branch_name_cache, installs, library_repo, icon_files,
                   docset, docset_json, readme, git>>

(***************************************************************************)
(* remove-old, lines 269-278.                                              *)
(***************************************************************************)
\* line 277: the entries of the directory that match *.tgz*
old_zipped_docsets_by_suffix(dir) ==
    {name \in DOMAIN dir : fnmatch(Chars(name), <<"*", ".", "t", "g", "z">>)}
old_zipped_docsets(dir) ==
    {name \in DOMAIN dir : fnmatch(Chars(name), <<"*", ".", "t", "g", "z", "*">>)}

\* What remove-old leaves of the directory, and the exception it ends with.
\* rmtree raises on what is no directory; unlink raises on a directory, after
\* the files the glob listed before it are gone.
remove_old_outcomes(dir) ==
    IF "versions" \in DOMAIN dir /\ dir["versions"] # "dir"
    THEN {[raised |-> "NotADirectoryError", dir |-> dir]}
    ELSE LET kept == Without(dir, {"versions"})
             old == old_zipped_docsets(kept)
             files == {name \in old : kept[name] = "file"}
         IN  IF files = old
             THEN {[raised |-> "none", dir |-> Without(kept, old)]}
             ELSE {[raised |-> "IsADirectoryError", dir |-> Without(kept, gone)] :
                        gone \in SUBSET files}

remove_old ==
    /\ At("remove-old", "start")
    /\ LET got == dash_docset_path
       IN  /\ dash_docset_path_cache' = path_cached(got)
           /\ IF got.raised # "none"
              THEN Raise(got.raised) /\ UNCHANGED dash_dir
              ELSE IF ~is_dir(got.value)
              THEN Return /\ UNCHANGED dash_dir
              ELSE \E end \in remove_old_outcomes(dash_dir) :
                    /\ dash_dir' = end.dir
                    /\ IF end.raised # "none" THEN Raise(end.raised) ELSE Return
    /\ UNCHANGED <<procVars, local, commands, library_version_cache, branch_name_cache,
                   trunk_branch_name_cache, installs, library_repo, icon_files,
                   docset, docsets, docset_json, readme, git>>

(***************************************************************************)
(* copy-contents, lines 281-300.                                           *)
(***************************************************************************)
RECURSIVE put_files(_, _)
put_files(dir, names) ==
    IF names = {} THEN dir
    ELSE LET name == CHOOSE n \in names : TRUE
         IN  put_files(Put(dir, name, "file"), names \ {name})

\* lines 284-288: shutil.copy into the directory; where the path is no
\* directory, shutil.copy writes a file of that name
copy_contents_copy_icons ==
    /\ At("copy-contents", "start")
    /\ IF docset_path.raised # "none"
       THEN /\ Raise(docset_path.raised)
            /\ UNCHANGED <<dash_docset_path_cache, docsets, dash_dir>>
       ELSE LET got == dash_docset_path
                icons == {name \in docset.entries :
                            fnmatch(Chars(name), <<"i", "c", "o", "n", "*", ".", "p", "n", "g">>)}
            IN  /\ dash_docset_path_cache' = path_cached(got)
                /\ IF got.raised # "none"
                   THEN Raise(got.raised) /\ UNCHANGED <<docsets, dash_dir>>
                   ELSE /\ Goto("tar")
                        /\ IF is_dir(got.value)
                           THEN /\ dash_dir' = put_files(dash_dir, icons)
                                /\ UNCHANGED docsets
                           ELSE /\ docsets' =
                                    IF icons # {}
                                    THEN Directory(Put(docsets.entries, got.value, "file"))
                                    ELSE docsets
                                /\ UNCHANGED dash_dir
    /\ UNCHANGED <<procVars, local, commands, library_version_cache, branch_name_cache,
                   trunk_branch_name_cache, installs, library_repo, icon_files,
                   docset, docset_json, readme, git>>

\* lines 290-292: the archive's file name
zipped_docset_name ==
    NameOf(with_suffix(Chars(LIBRARY_NAME), <<".", "t", "g", "z">>), FileNamePool)

\* lines 293-300: tar writes the archive if the directory is there; a tar that
\* fails may have written some of it
copy_contents_tar ==
    /\ At("copy-contents", "tar")
    /\ LET there == is_dir(dash_docset_path.value)
       IN  \E outcome \in IF install_only THEN {"skipped"}
                          ELSE IF there THEN {"ok", "failed"} ELSE {"failed"} :
            /\ commands' = logged("tar --exclude=.DS_Store -cvzf", outcome)
            /\ IF outcome = "failed"
               THEN /\ Raise("CommandFailed")
                    /\ \E written \in IF there THEN BOOLEAN ELSE {FALSE} :
                        dash_dir' = IF written
                                    THEN Put(dash_dir, zipped_docset_name, "file")
                                    ELSE dash_dir
               ELSE /\ Return
                    /\ dash_dir' = IF outcome = "ok"
                                   THEN Put(dash_dir, zipped_docset_name, "file")
                                   ELSE dash_dir
    /\ UNCHANGED <<procVars, local, cacheVars, installs, library_repo, icon_files,
                   docset, docsets, docset_json, readme, git>>

(***************************************************************************)
(* fill-forms, lines 303-358.                                              *)
(***************************************************************************)
\* lines 307-318
docset_config_archive_of_repository(library_version) ==
    [name |-> LIBRARY_NAME,
     version |-> library_version,
     archive |-> LIBRARY_REPOSITORY \o ".tgz",
     author |-> [name |-> "Paulo S. Costa", link |-> "https://github.com/" \o GITHUB_USER],
     aliases |-> <<"python", "graph", "matplotlib", "visualization", "data">>]
docset_config(library_version) ==
    [name |-> LIBRARY_NAME,
     version |-> library_version,
     archive |-> LIBRARY_NAME \o ".tgz",
     author |-> [name |-> "Paulo S. Costa", link |-> "https://github.com/" \o GITHUB_USER],
     aliases |-> <<"python", "graph", "matplotlib", "visualization", "data">>]

\* textwrap.dedent on the lines of a text: the margin the lines with text
\* share is cut, and a line of blanks becomes an empty line
RECURSIVE spaces(_)
spaces(n) == IF n <= 0 THEN "" ELSE " " \o spaces(n - 1)
dedent(lines) ==
    LET with_text == {i \in 1..Len(lines) : lines[i].text # ""}
        margin == IF with_text = {} THEN 0
                  ELSE lines[CHOOSE i \in with_text :
                                \A j \in with_text : lines[i].indent <= lines[j].indent].indent
    IN  [i \in 1..Len(lines) |->
            IF lines[i].text = "" THEN ""
            ELSE spaces(lines[i].indent - margin) \o lines[i].text]

\* lines 322-357: the template's lines, each with its indentation
\* the three backquotes of a code fence, which no TLA+ string can hold
Fence == "~~~"
TemplateIndent == 8
ClosingIndent == 4
line(text) == [indent |-> IF text = "" THEN 0 ELSE TemplateIndent, text |-> text]
readme_template ==
    LET docset_author == "Paulo S. Costa"
        docset_author_url == "https://github.com/" \o GITHUB_USER
        repo_path == GITHUB_USER \o "/" \o GITHUB_REPO
    IN  << line("# " \o LIBRARY_NAME),
           line(""),
           line("## Who am I"),
           line(""),
           line("[" \o docset_author \o "](" \o docset_author_url \o ")"),
           line(""),
           line("## How to generate docset"),
           line(""),
           line("This docset is automatically generated via [" \o repo_path
                    \o "](https://github.com/" \o repo_path \o ")."),
           line(""),
           line("### Requirements"),
           line(""),
           line("- [git](https://git-scm.com/)"),
           line("- [GitHub CLI (gh)](https://cli.github.com/)"),
           line("- [GNU Make](https://www.gnu.org/software/make/)"),
           line("- [GNU Tar](https://www.gnu.org/software/tar/)"),
           line("- [ImageMagick](https://imagemagick.org/index.php)"),
           line("- [Nox](https://nox.thea.codes/en/stable/)"),
           line("- [Python 3](https://www.python.org/)"),
           line(""),
           line("### Build directions"),
           line(""),
           line("To build the docs, run:"),
           line(""),
           line(Fence \o "console"),
           line("$ gh repo clone " \o repo_path),
           line(""),
           line("$ cd " \o GITHUB_REPO),
           line(""),
           line("$ nox --tags build"),
           line(Fence),
           [indent |-> ClosingIndent, text |-> ""] >>

\* line 306
fill_forms_get_library_version ==
    /\ At("fill-forms", "start")
    /\ get_library_version("write", FALSE)
    /\ VersionFrame

\* lines 319-321 and 358: both files are written into the directory
fill_forms_write ==
    /\ At("fill-forms", "write")
    /\ LET got == dash_docset_path
           docset_config_name ==
                NameOf(with_suffix(Chars("docset"), <<".", "j", "s", "o", "n">>), FileNamePool)
           readme_name ==
                NameOf(with_suffix(Chars("README"), <<".", "m", "d">>), FileNamePool)
       IN  /\ dash_docset_path_cache' = path_cached(got)
           /\ IF got.raised # "none"
              THEN Raise(got.raised) /\ UNCHANGED <<dash_dir, docset_json, readme>>
              ELSE IF ~is_dir(got.value)
              THEN Raise("FileNotFoundError") /\ UNCHANGED <<dash_dir, docset_json, readme>>
              ELSE /\ docset_json' = File(docset_config(local.library_version))
                   /\ readme' = File(dedent(readme_template))
                   /\ dash_dir' = put_files(dash_dir, {docset_config_name, readme_name})
                   /\ Return
    /\ UNCHANGED <<procVars, local, commands, library_version_cache, branch_name_cache,
                   trunk_branch_name_cache, installs, library_repo, icon_files,
                   docset, docsets, git>>

(***************************************************************************)
(* commit, lines 361-373.                                                  *)
(***************************************************************************)
commit_get_library_version ==
    /\ At("commit", "start")
    /\ get_library_version("chdir", FALSE)
    /\ VersionFrame

commit_chdir ==
    /\ At("commit", "chdir")
    /\ Chdir(DOCSET_REPOSITORY, docsets.exists, "add")
    /\ ChdirFrame

commit_git_add ==
    /\ At("commit", "add")
    /\ PlainRun("git add --all", Goto("commit"))
    /\ RunFrame

commit_git_commit ==
    /\ At("commit", "commit")
    /\ \E outcome \in run_outcomes :
        /\ commands' = logged("git commit --message=Add docset for " \o LIBRARY_NAME
                                \o " " \o local.library_version \o ".", outcome)
        /\ IF outcome = "failed"
           THEN Raise("CommandFailed") /\ UNCHANGED git
           ELSE /\ Return
                /\ git' = IF outcome = "ok" THEN [git EXCEPT !.committed = TRUE] ELSE git
    /\ UNCHANGED <<procVars, local, cacheVars, installs, fsVars>>

(***************************************************************************)
(* push, lines 376-384.                                                    *)
(***************************************************************************)
push_make_branch_name ==
    /\ At("push", "start")
    /\ make_branch_name("chdir")
    /\ VersionFrame

push_chdir ==
    /\ At("push", "chdir")
    /\ Chdir(DOCSET_REPOSITORY, docsets.exists, "push")
    /\ ChdirFrame

push_git_push ==
    /\ At("push", "push")
    /\ \E outcome \in run_outcomes :
        /\ commands' = logged("git push --set-upstream origin " \o local.branch_name,
                              outcome)
        /\ IF outcome = "failed"
           THEN Raise("CommandFailed") /\ UNCHANGED git
           ELSE /\ Return
                /\ git' = IF outcome = "ok" THEN [git EXCEPT !.pushed = TRUE] ELSE git
    /\ UNCHANGED <<procVars, local, cacheVars, installs, fsVars>>

(***************************************************************************)
(* pull-request, lines 387-421.                                            *)
(***************************************************************************)
pull_request_get_library_version ==
    /\ At("pull-request", "start")
    /\ get_library_version("chdir", FALSE)
    /\ VersionFrame

\* lines 391-393
pull_request_chdir ==
    /\ At("pull-request", "chdir")
    /\ LET got == dash_docset_path
       IN  /\ dash_docset_path_cache' = path_cached(got)
           /\ IF got.raised # "none"
              THEN Raise(got.raised)
              ELSE Chdir(DOCSET_REPOSITORY \o "/docsets/" \o got.value,
                         is_dir(got.value), "trunk")
    /\ UNCHANGED <<procVars, local, commands, library_version_cache, branch_name_cache,
                   trunk_branch_name_cache, installs, fsVars, git>>

\* lines 394-398
pull_request_get_trunk_branch_name ==
    /\ At("pull-request", "trunk")
    /\ get_trunk_branch_name("branch_name")
    /\ TrunkFrame

\* line 408
pull_request_make_branch_name ==
    /\ At("pull-request", "branch_name")
    /\ make_branch_name("create")
    /\ VersionFrame

\* lines 409-421
pull_request_gh_pr_create ==
    /\ At("pull-request", "create")
    /\ \E outcome \in run_outcomes :
        /\ commands' = logged("gh pr create --repo=" \o UPSTREAM_REPOSITORY_OWNER \o "/"
                                \o DOCSET_REPOSITORY \o " --head=" \o GITHUB_USER \o ":"
                                \o local.branch_name, outcome)
        /\ IF outcome = "failed"
           THEN Raise("CommandFailed") /\ UNCHANGED git
           ELSE /\ Return
                /\ git' = IF outcome = "ok" THEN [git EXCEPT !.pull_request = TRUE]
                          ELSE git
    /\ UNCHANGED <<procVars, local, cacheVars, installs, fsVars>>

(***************************************************************************)
(* check-types, lines 424-428.                                             *)
(***************************************************************************)
check_types_install ==
    /\ At("check-types", "start")
    /\ \E outcome \in {"ok", "failed"} :
        /\ commands' = logged("pip install mypy nox", outcome)
        /\ IF outcome = "failed" THEN Raise("CommandFailed") ELSE Goto("mypy")
    /\ RunFrame

check_types_mypy ==
    /\ At("check-types", "mypy")
    /\ PlainRun("mypy noxfile.py", Return)
    /\ RunFrame

(***************************************************************************)
(* version, lines 431-435.                                                 *)
(***************************************************************************)
version_get_library_version ==
    /\ At("version", "start")
    /\ get_library_version("print", FALSE)
    /\ VersionFrame

version_print ==
    /\ At("version", "print")
    /\ Return
    /\ UNCHANGED <<procVars, local, commands, cacheVars, installs, fsVars, git>>

(***************************************************************************)
(* The specification.                                                      *)
(***************************************************************************)
Next ==
    \/ StartSession
    \/ FinishSession
    \/ clone_gh_repo_clone
    \/ clone_chdir
    \/ clone_gh_api_tags
    \/ clone_latest_tag_name
    \/ clone_git_checkout
    \/ icon_convert
    \/ dash_install
    \/ dash_doc2dash
    \/ dash_copy_icon
    \/ fork_gh_repo_fork
    \/ fork_make_branch_name
    \/ fork_chdir
    \/ fork_git_switch
    \/ fork_git_fetch
    \/ fork_get_trunk_branch_name
    \/ fork_git_reset
    \/ fork_git_remote_get_url
    \/ fork_add_github_token
    \/ fork_git_remote_remove
    \/ fork_git_remote_add
    \/ create_directory
    \/ remove_old
    \/ copy_contents_copy_icons
    \/ copy_contents_tar
    \/ fill_forms_get_library_version
    \/ fill_forms_write
    \/ commit_get_library_version
    \/ commit_chdir
    \/ commit_git_add
    \/ commit_git_commit
    \/ push_make_branch_name
    \/ push_chdir
    \/ push_git_push
    \/ pull_request_get_library_version
    \/ pull_request_chdir
    \/ pull_request_get_trunk_branch_name
    \/ pull_request_make_branch_name
    \/ pull_request_gh_pr_create
    \/ check_types_install
    \/ check_types_mypy
    \/ version_get_library_version
    \/ version_print

Spec == Init /\ [][Next]_vars

(***************************************************************************)
(* The properties.                                                         *)
(***************************************************************************)
Names(rs) == [i \in 1..Len(rs) |-> rs[i].name]
Succeeded(i, name) ==
    i \in 1..Len(results) /\ results[i].name = name /\ results[i].status = "success"

\* C1: _get_library_version returns the version of the installed package when
\* the report's install list has exactly one package, and raises, returning no
\* version, when the list has two or more.
C1_VersionOfTheOnePackage ==
    local.dependency_report # None =>
        LET install_report == local.dependency_report.install
        IN  /\ Len(install_report) = 1 =>
                /\ local.library_version = install_report[1].metadata.version
                /\ session \in DOMAIN library_version_cache
                /\ library_version_cache[session] = install_report[1].metadata.version
            /\ Len(install_report) >= 2 =>
                /\ local.library_version = "none"
                /\ session \notin DOMAIN library_version_cache
                /\ pc = "raised"
                /\ error = "ValueError: Multiple dependencies detected in requirements file. Expected one."

\* a session has raised on a report of two packages, after an earlier session
\* of the process got its version from a report of one
C1_Witness ==
    /\ local.dependency_report # None
    /\ Len(local.dependency_report.install) = 2
    /\ pc = "raised"
    /\ \E s \in DOMAIN library_version_cache : s < session

\* A release tag as the claims mean it: an optional leading v, then runs of
\* digits with dots between them; and the tuple of its numbers.
release_sections(tag_name) ==
    split_on(IF Len(tag_name) > 0 /\ tag_name[1] = "v" THEN Tail(tag_name) ELSE tag_name,
             ".")
is_release_tag(tag_name) ==
    \A i \in 1..Len(release_sections(tag_name)) : isnumeric(release_sections(tag_name)[i])
release_tuple(tag_name) ==
    [i \in 1..Len(release_sections(tag_name)) |-> int(release_sections(tag_name)[i])]

\* clone is past its choice of the tag: it holds a tag name, or the choice raised
TagChosen ==
    /\ running = "clone"
    /\ \/ local.latest_tag_name # <<>>
       \/ /\ pc = "raised"
          /\ error \in {"ValueError: Did not find a tag name for the latest release",
                        "ValueError: max() arg is an empty sequence",
                        "ValueError: invalid literal for int() with base 10: ''"}

\* C2: of the tag names the tags API printed, release tags mixed with others,
\* clone chooses (and checks out) a release tag whose tuple of numbers no other
\* release tag's exceeds; a tag that is no release tag is never chosen and
\* never changes the choice.
C2_LatestReleaseTagChosen ==
    (TagChosen /\ isinstance_str(local.tags_api_output)) =>
        LET tag_names == split(local.tags_api_output.val)
            releases == {i \in 1..Len(tag_names) : is_release_tag(tag_names[i])}
        IN  releases # {} =>
                /\ \E i \in releases : local.latest_tag_name = tag_names[i]
                /\ \A i \in releases :
                        ~tuple_less(release_tuple(local.latest_tag_name),
                                    release_tuple(tag_names[i]))

\* C3: when the tags output holds no tag parseable as a numeric version, or
\* nothing at all, clone raises "Did not find a tag name for the latest
\* release" and runs no git checkout.
C3_NoTagRaisesDescriptiveError ==
    (/\ TagChosen
     /\ \/ ~isinstance_str(local.tags_api_output)
        \/ numeric_tag_names(split(local.tags_api_output.val)) = <<>>) =>
        /\ pc = "raised"
        /\ error = "ValueError: Did not find a tag name for the latest release"
        /\ \A i \in 1..Len(commands) : commands[i].command # "git checkout tags/"

\* a text without the whitespace around it
trimmed(s) ==
    LET inside == {i \in 1..Len(s) : s[i] \notin Whitespace}
    IN  IF inside = {} THEN <<>>
        ELSE SubSeq(s, CHOOSE i \in inside : \A j \in inside : i <= j,
                       CHOOSE i \in inside : \A j \in inside : j <= i)

\* the statements of fork and pull-request after _get_trunk_branch_name returned
PastTrunk ==
    \/ running = "fork" /\ pc \in {"reset", "origin_url", "token", "remote_remove",
                                    "remote_add", "returned"}
    \/ running = "pull-request" /\ pc \in {"branch_name", "create", "returned"}

\* C4: given the default-branch response, _get_trunk_branch_name returns the
\* branch name without the whitespace around it; when the response holds no
\* default branch it raises and returns no name.
C4_TrunkBranchNameTrimmed ==
    /\ isinstance_str(local.default_branch) =>
            /\ local.trunk_branch_name = trimmed(local.default_branch.val)
            /\ trunk_branch_name_cache[session] = trimmed(local.default_branch.val)
    /\ PastTrunk => isinstance_str(local.default_branch)
    /\ (running # "none" /\ ~isinstance_str(local.default_branch)) =>
            /\ local.trunk_branch_name = <<>>
            /\ session \notin DOMAIN trunk_branch_name_cache
    /\ error = "ValueError: No default branch detected." =>
            pc \in {"raised", "idle"} /\ ~isinstance_str(local.default_branch)

\* pull-request holds the trimmed name of a response that ended in a line end
C4_Witness ==
    /\ running = "pull-request"
    /\ pc = "create"
    /\ isinstance_str(local.default_branch)
    /\ local.default_branch.val = Chars("main") \o <<"\n">>
    /\ local.trunk_branch_name = Chars("main")

\* C5: in every session, the first external command that returns a non-zero
\* status is the last command the session runs, and the session ends with
\* CommandFailed raised and is reported failed; for fork, nothing runs after a
\* failed git switch --create.
C5_FailedCommandAborts ==
    \A i \in 1..Len(commands) :
        commands[i].returncode # 0 =>
            /\ i = Len(commands)
            /\ error = "CommandFailed"
            /\ \/ pc = "raised"
               \/ pc = "idle" /\ results[Len(results)].status = "failed"

\* fork has aborted on a failed git switch --create
C5_Witness ==
    /\ running = "fork"
    /\ pc = "raised"
    /\ Len(commands) >= 2
    /\ commands[Len(commands)] = [command |-> "git switch --create", returncode |-> 1]

\* C6: over the sessions of one process the dependency-report install is
\* performed at most once, and every request for the version returns the value
\* computed the first time.
C6_VersionComputedOnce ==
    /\ installs <= 1
    /\ \A s \in DOMAIN library_version_cache, t \in DOMAIN library_version_cache :
            library_version_cache[s] = library_version_cache[t]

\* the README that fill-forms is to write
ExpectedReadme ==
    << "# seaborn",
       "",
       "## Who am I",
       "",
       "[Paulo S. Costa](https://github.com/paw-lu)",
       "",
       "## How to generate docset",
       "",
       "This docset is automatically generated via [paw-lu/seaborn-dash-docset](https://github.com/paw-lu/seaborn-dash-docset).",
       "",
       "### Requirements",
       "",
       "- [git](https://git-scm.com/)",
       "- [GitHub CLI (gh)](https://cli.github.com/)",
       "- [GNU Make](https://www.gnu.org/software/make/)",
       "- [GNU Tar](https://www.gnu.org/software/tar/)",
       "- [ImageMagick](https://imagemagick.org/index.php)",
       "- [Nox](https://nox.thea.codes/en/stable/)",
       "- [Python 3](https://www.python.org/)",
       "",
       "### Build directions",
       "",
       "To build the docs, run:",
       "",
       "~~~console",
       "$ gh repo clone paw-lu/seaborn-dash-docset",
       "",
       "$ cd seaborn-dash-docset",
       "",
       "$ nox --tags build",
       "~~~",
       "" >>

ExpectedConfig(version) ==
    [name |-> "seaborn",
     version |-> version,
     archive |-> "seaborn.tgz",
     author |-> [name |-> "Paulo S. Costa", link |-> "https://github.com/paw-lu"],
     aliases |-> <<"python", "graph", "matplotlib", "visualization", "data">>]

\* C7: fill-forms writes a docset.json with name seaborn, the version the
\* version extractor returned to that session, archive seaborn.tgz, the fixed
\* author and aliases, and the README of the fixed template; both depend on
\* nothing but that version.
C7_FormsFilled ==
    /\ (running = "fill-forms" /\ pc = "returned") =>
            /\ local.library_version \in Versions
            /\ local.dependency_report # None
            /\ local.library_version = local.dependency_report.install[1].metadata.version
    /\ \A i \in 1..Len(results) \cup {session} :
            (Succeeded(i, "fill-forms")
                \/ (i = session /\ running = "fill-forms" /\ pc = "returned")) =>
                /\ docset_json = File(ExpectedConfig(library_version_cache[i]))
                /\ readme = File(ExpectedReadme)
                /\ {"docset.json", "README.md"} \subseteq DOMAIN dash_dir

\* fill-forms has returned, the version reported being 0.13.0
C7_Witness ==
    /\ running = "fill-forms"
    /\ pc = "returned"
    /\ local.library_version = "0.13.0"
    /\ docset_json.exists
    /\ docset_json.content.version = "0.13.0"

\* C8: when a session has finished, returned or raised, the working directory
\* is the one the session started in (the noxfile's), and no chdir block is
\* left open.
C8_WorkingDirectoryRestored ==
    pc \in {"idle", "start", "returned", "raised"} =>
        cwd = "." /\ ~working_dir_context.active

\* pull-request has aborted on a failed gh pr create, inside its chdir block
C8_Witness ==
    /\ running = "pull-request"
    /\ pc = "raised"
    /\ error = "CommandFailed"
    /\ Len(commands) > 0
    /\ commands[Len(commands)].returncode = 1
    /\ cwd = "."

\* C9: a run of the contribute sessions takes them in definition order and
\* stops at the first that fails: no session runs after a failed one, the pull
\* request is created only after push has succeeded, and push only after commit
\* has succeeded.
C9_ContributeInOrderUntilFailure ==
    LET ran == Names(results) \o (IF running = "none" THEN <<>> ELSE <<running>>)
        contribute == tagged("contribute")
    IN  /\ \A i \in 1..Len(results) :
                results[i].status = "failed" =>
                    i = Len(results) /\ running = "none" /\ queue = <<>>
        /\ (ran # <<>> /\ ran[1] = "fork") =>
                /\ Len(ran) <= Len(contribute)
                /\ ran = SubSeq(contribute, 1, Len(ran))
                /\ ran \o queue \in {ran, contribute}
                /\ git.pull_request =>
                        git.pushed /\ \E i \in 1..Len(results) : Succeeded(i, "push")
                /\ git.pushed =>
                        git.committed /\ \E i \in 1..Len(results) : Succeeded(i, "commit")

\* the run has stopped at a failed push, after fork to commit succeeded
C9_Witness ==
    /\ Len(results) = 7
    /\ results[1].name = "fork"
    /\ results[7] = [name |-> "push", status |-> "failed"]
    /\ git.committed
    /\ queue = <<>>
    /\ running = "none"

\* a name that holds .tgz
holds_tgz(name) ==
    \E i \in 1..(Len(Chars(name)) - 3) :
        SubSeq(Chars(name), i, i + 3) = <<".", "t", "g", "z">>

\* remove-old, copy-contents and fill-forms have run in that order, their
\* commands included (under --install-only session.run runs nothing)
FormsAfterCopyAfterRemove ==
    /\ ~install_only
    /\ \E i \in 1..Len(results) :
        /\ Succeeded(i, "remove-old")
        /\ Succeeded(i + 1, "copy-contents")
        /\ Succeeded(i + 2, "fill-forms")

C10_DirectoryAfterwards ==
    FormsAfterCopyAfterRemove =>
        /\ dash_docset_path_cache.cached
        /\ is_dir(dash_docset_path_cache.value)
        /\ ~("versions" \in DOMAIN dash_dir /\ dash_dir["versions"] = "dir")
        /\ {name \in DOMAIN dash_dir : dash_dir[name] = "file" /\ holds_tgz(name)}
                = {"seaborn.tgz"}
        /\ docset_json.exists
        /\ docset_json.content.archive = "seaborn.tgz"

C10_RemoveOldStep ==
    At("remove-old", "start") =>
        /\ \A name \in DOMAIN dash_dir :
                \/ name \in DOMAIN dash_dir' /\ dash_dir'[name] = dash_dir[name]
                \/ name = "versions"
                \/ holds_tgz(name) /\ dash_dir[name] = "file"
        /\ DOMAIN dash_dir' \subseteq DOMAIN dash_dir
        /\ UNCHANGED <<docsets, docset_json, readme, docset, icon_files, library_repo>>

\* C10: for any prior content of the library's docset directory, after
\* remove-old, copy-contents and fill-forms have run in that order the
\* directory holds no versions subdirectory and exactly one file matching
\* *.tgz*, seaborn.tgz, the one docset.json names as its archive; and
\* remove-old deletes nothing but the versions subtree and files matching *.tgz*.
\* "Have run" is read as: succeeded with their commands run, which excludes
\* nox --install-only, where tar is skipped.
C10_OneArchiveLeft == []C10_DirectoryAfterwards /\ [][C10_RemoveOldStep]_vars

\* the three have run on a directory found under the spelling Seaborn
C10_Witness ==
    /\ FormsAfterCopyAfterRemove
    /\ dash_docset_path_cache.value = "Seaborn"
    /\ DOMAIN dash_dir = {"seaborn.tgz", "icon.png", "icon@2x.png", "docset.json", "README.md"}

====
